---- MODULE Spec2Model ----
(***************************************************************************)
(* dnppy.raster: the spatial alignment pipeline (clip_and_snap,            *)
(* spatially_match), the overlap mask (find_overlap) and the multi-raster  *)
(* statistics (many_stats), with core.create_outname.                      *)
(*                                                                         *)
(* Rasters are records of the metadata to_numpy extracts plus the pixel    *)
(* array.  Arrays are functions on <<row, col>>, 0-based, row 0 the top    *)
(* row of the image (the order arcpy.RasterToNumPyArray delivers), while   *)
(* Xmin/Ymin are the lower-left corner.  Real-world coordinates are        *)
(* integers; a cell is cellWidth x cellHeight coordinate units.            *)
(***************************************************************************)
EXTENDS Integers, Sequences, FiniteSets, TLC

(***************************************************************************)
(* Bounds of the model.                                                    *)
(***************************************************************************)
MaxRef == 3        \* the snap raster has 1..MaxRef columns and rows
MaxCand == 2       \* the candidate raster has 1..MaxCand columns and rows

(***************************************************************************)
(* State.                                                                  *)
(***************************************************************************)
VARIABLES
    \* ---- clip_and_snap: arguments
    snap_raster,    \* the reference raster file
    rastname,       \* the candidate raster file
    argNoData,      \* the NoData_Value argument ([given |-> FALSE] is Python False)
    \* ---- clip_and_snap: locals
    cs_pc,          \* position in clip_and_snap
    NoData_Value,   \* local NoData_Value after line 494-495
    meta,           \* metadata of the (clipped) candidate
    raster,         \* pixel array of the (clipped) candidate
    xoffset,
    yoffset,
    newraster,      \* the output array
    cs_err,         \* the exception that ended clip_and_snap, "" if none
    \* ---- file system
    tempdir,        \* TRUE iff <outdir>/temp exists
    tempout,        \* <<file>> or <<>>: <tempdir>/<tail>
    tempout2,       \* <<file>> or <<>>: <tempdir>/<tail minus .tif>2.tif
    outfile,        \* <<file>> or <<>>: outname as saved by from_numpy
    \* ---- find_overlap
    file_A,         \* pixel array of the first raster file
    file_B,         \* pixel array of the second raster file
    NoData_A,
    NoData_B,
    a,              \* the array loaded from file_A, modified in place
    b,              \* the array loaded from file_B, modified in place
    Workmatrix,
    fo_pc,          \* position in find_overlap
    \* ---- many_stats
    rasterlist,     \* sequence of raster files
    saves,          \* the statistics asked for
    low_thresh,     \* [given |-> FALSE] is None
    high_thresh,
    ms_pc,          \* position in many_stats
    ms_i,           \* rasters stacked so far
    rast_3d,        \* the stack: raster index -> array; a cell is <<v>>, or <<>> for nan
    avg_rast,
    std_rast,
    num_rast,
    saved,          \* statistic -> <<array>> saved by from_numpy, or <<>>
    ms_err,         \* the exception that ended many_stats, "" if none
    \* ---- spatially_match
    sm_rasterlist,  \* sequence of candidate raster files (projection and cell size)
    resamp_type,    \* [given |-> FALSE] is Python False
    sm_pc,          \* position in spatially_match
    sm_i,           \* index of the candidate being processed, 0 before the loop
    usetemp,
    tempfiles,      \* candidate index -> <<file>> or <<>>: <tempdir>/<tail of candidate>
    matched,        \* candidate index -> <<file given to clip_and_snap>> or <<>>
    sm_err,         \* the exception that ended spatially_match, "" if none
    \* ---- is_rast
    ir_filename,    \* the file name, a sequence of characters
    ir_isfile,      \* os.path.isfile(filename)
    ir_pc,
    ir_result,      \* <<returned value>> or <<>>
    \* ---- core.create_outname
    co_outdir,      \* [given |-> FALSE] is Python False; value is a path
    co_inname,      \* [path, isfile]: the path and os.path.isfile of it
    co_suffix,
    co_ext,         \* [given |-> FALSE] is Python False; value is a sequence of tokens
    co_pc,
    co_result,      \* [err, name]
    \* ---- grab_info
    gi_type,        \* data_type
    gi_jday,        \* the julian day in the file name
    gi_grouping,    \* CustGroupings: [given |-> FALSE] is Python False
    gi_exists,      \* core.exists(filepath)
    gi_pc,
    gi_info,        \* attribute -> <<value>> or <<>> of the info object
    gi_err          \* the exception that ended grab_info, "" if none

alignVars == <<snap_raster, rastname, argNoData, cs_pc, NoData_Value, meta, raster,
               xoffset, yoffset, newraster, cs_err>>
fsVars == <<tempdir, tempout, tempout2, outfile>>
overlapVars == <<file_A, file_B, NoData_A, NoData_B, a, b, Workmatrix, fo_pc>>
statsVars == <<rasterlist, saves, low_thresh, high_thresh, ms_pc, ms_i, rast_3d,
               avg_rast, std_rast, num_rast, saved, ms_err>>
matchVars == <<sm_rasterlist, resamp_type, sm_pc, sm_i, usetemp, tempfiles, matched,
               sm_err>>
isRastVars == <<ir_filename, ir_isfile, ir_pc, ir_result>>
outnameVars == <<co_outdir, co_inname, co_suffix, co_ext, co_pc, co_result>>
grabVars == <<gi_type, gi_jday, gi_grouping, gi_exists, gi_pc, gi_info, gi_err>>
utilVars == <<isRastVars, outnameVars, grabVars>>
vars == <<alignVars, fsVars, overlapVars, statsVars, matchVars, utilVars>>

\* Each operation runs on its own: the state of the others stays as it is.
AlignOnly == UNCHANGED <<overlapVars, statsVars, matchVars, utilVars>>
OverlapOnly == UNCHANGED <<alignVars, fsVars, statsVars, matchVars, utilVars>>
StatsOnly == UNCHANGED <<alignVars, fsVars, overlapVars, matchVars, utilVars>>
MatchOnly == UNCHANGED <<alignVars, tempout, tempout2, outfile, overlapVars, statsVars,
                         utilVars>>
IsRastOnly == UNCHANGED <<alignVars, fsVars, overlapVars, statsVars, matchVars,
                          outnameVars, grabVars>>
OutnameOnly == UNCHANGED <<alignVars, fsVars, overlapVars, statsVars, matchVars,
                           isRastVars, grabVars>>
GrabOnly == UNCHANGED <<alignVars, fsVars, overlapVars, statsVars, matchVars,
                        isRastVars, outnameVars>>

(***************************************************************************)
(* Python and numpy helpers.                                               *)
(***************************************************************************)
Min(x, y) == IF x < y THEN x ELSE y
Max(x, y) == IF x > y THEN x ELSE y

\* Python 2 round(n/d, 0) for d > 0: to nearest, halves away from zero.
PyRound(n, d) ==
    IF n >= 0 THEN (2 * n + d) \div (2 * d)
              ELSE -((2 * (-n) + d) \div (2 * d))

\* Truth value of an optional numeric argument: False and 0 are both falsy.
PyFalsy(arg) == (~arg.given) \/ arg.value = 0

\* One bound of a slice on an axis of length n: negative bounds count from the
\* end, out-of-range bounds are clamped.
PyBound(i, n) == IF i < 0 THEN Max(i + n, 0) ELSE Min(i, n)

\* The indices start:stop selects on an axis of length n.
PySlice(start, stop, n) == PyBound(start, n) .. (PyBound(stop, n) - 1)

\* Broadcasts, were numpy to cut a source that is too long down to the target.
BroadcastsOrTruncates(m, k) == m = k \/ m = 1 \/ m > k

\* numpy broadcasting of a source axis of length m into a target of length k.
Broadcasts(m, k) == m = k \/ m = 1

EmptyArray == [p \in {} |-> 0]
Cells(ys, xs) == (0 .. ys - 1) \X (0 .. xs - 1)

(***************************************************************************)
(* Raster files and to_numpy.                                              *)
(***************************************************************************)
\* A raster file: georeferencing, NoData value, the pixel array and the name of
\* its projection.
RasterFile(xmin, ymin, cw, ch, nodata, ys, xs, data, proj) ==
    [Xmin |-> xmin, Ymin |-> ymin, cellWidth |-> cw, cellHeight |-> ch,
     NoData_Value |-> nodata, Ysize |-> ys, Xsize |-> xs, data |-> data,
     projectionName |-> proj]

\* The metadata object to_numpy builds.
Metadata(f) ==
    [Xsize |-> f.Xsize, Ysize |-> f.Ysize,
     cellWidth |-> f.cellWidth, cellHeight |-> f.cellHeight,
     Xmin |-> f.Xmin, Ymin |-> f.Ymin,
     Xmax |-> f.Xmin + f.Xsize * f.cellWidth,
     Ymax |-> f.Ymin + f.Ysize * f.cellHeight,
     projectionName |-> f.projectionName,
     NoData_Value |-> f.NoData_Value]

NoMeta == [Xsize |-> 0, Ysize |-> 0, cellWidth |-> 0, cellHeight |-> 0,
           Xmin |-> 0, Ymin |-> 0, Xmax |-> 0, Ymax |-> 0, projectionName |-> "",
           NoData_Value |-> 0]

(***************************************************************************)
(* arcpy.Clip_management(in, rectangle, out, "#", "#", "NONE"): the part   *)
(* of the input inside the rectangle, on the input's own grid.  A cell     *)
(* lying entirely inside the rectangle is kept; a cell the rectangle's     *)
(* edge cuts through may be kept or dropped (the "rounding issues" of the  *)
(* comment at lines 523-524); no cell is invented outside the input.  An   *)
(* input with no cell reaching into the rectangle makes the tool fail.     *)
(***************************************************************************)
\* Index ranges <<first, last>> kept along one axis: n cells of width w, the
\* first starting at lo, clipped to [rlo, rhi].
ClipAxis(lo, n, w, rlo, rhi) ==
    LET Full  == {i \in 0 .. n - 1 : lo + i * w >= rlo /\ lo + (i + 1) * w <= rhi}
        Touch == {i \in 0 .. n - 1 : lo + i * w < rhi /\ lo + (i + 1) * w > rlo}
    IN  {ab \in Touch \X Touch :
            /\ ab[1] <= ab[2]
            /\ \A i \in Full : ab[1] <= i /\ i <= ab[2]}

\* The possible outputs of the clip; {} when the tool raises.
Clip(f, rect) ==
    LET cols == ClipAxis(f.Xmin, f.Xsize, f.cellWidth, rect.Xmin, rect.Xmax)
        rows == ClipAxis(f.Ymin, f.Ysize, f.cellHeight, rect.Ymin, rect.Ymax)
    IN  { RasterFile(f.Xmin + cx[1] * f.cellWidth, f.Ymin + ry[1] * f.cellHeight,
                     f.cellWidth, f.cellHeight, f.NoData_Value,
                     ry[2] - ry[1] + 1, cx[2] - cx[1] + 1,
                     [p \in Cells(ry[2] - ry[1] + 1, cx[2] - cx[1] + 1) |->
                         \* rows are counted from the bottom in ry, from the top in data
                         f.data[<<p[1] + (f.Ysize - 1 - ry[2]), p[2] + cx[1]>>]],
                     f.projectionName)
          : cx \in cols, ry \in rows }

(***************************************************************************)
(* from_numpy(numpy_rast, Metadata, outpath, NoData_Value, num_type): the  *)
(* file it saves.  The lower-left corner and the cell size come from the   *)
(* metadata; the recorded NoData value is the argument unless it is falsy. *)
(***************************************************************************)
from_numpy(numpy_rast, Metadata_, NoData_arg, ys, xs) ==
    RasterFile(Metadata_.Xmin, Metadata_.Ymin, Metadata_.cellWidth, Metadata_.cellHeight,
               IF PyFalsy(NoData_arg) THEN Metadata_.NoData_Value ELSE NoData_arg.value,
               ys, xs, numpy_rast, Metadata_.projectionName)

(***************************************************************************)
(* clip_and_snap(snap_raster, rastname, outname, numtype, NoData_Value)    *)
(***************************************************************************)
snap_meta == Metadata(snap_raster)

\* lines 520-521 and 530-531
Offset(candMin, snapMin, cell) == PyRound(candMin - snapMin, cell)

\* lines 494-495: the NoData value that is handed on to from_numpy
LocalNoData(arg, candMeta) == IF PyFalsy(arg) THEN candMeta.NoData_Value ELSE arg.value

\* line 541: the value the output array is filled with
FillValue(m, localNoData) == m.NoData_Value

\* RowSlice starting one row too far down
RowSliceOffByOne(sm, m, yoff) == <<sm.Ysize - m.Ysize - yoff + 1, sm.Ysize - yoff>>

\* lines 553-554: the destination slices, as <<start, stop>> before normalisation
RowSlice(sm, m, yoff) == <<sm.Ysize - m.Ysize - yoff, sm.Ysize - yoff>>
ColSlice(sm, m, xoff) == <<sm.Xsize - m.Xsize - xoff, sm.Xsize - xoff>>

\* lines 490-504: read the metadata, default the arguments, make the temp directory
CS_Begin ==
    /\ cs_pc = "begin"
    /\ AlignOnly
    /\ NoData_Value' = LocalNoData(argNoData, Metadata(rastname))
    /\ tempdir' = TRUE
    /\ cs_pc' = "clip"
    /\ UNCHANGED <<snap_raster, rastname, argNoData, meta, raster, xoffset, yoffset,
                   newraster, cs_err, tempout, tempout2, outfile>>

\* lines 509-516: clip the candidate to the snap raster's rectangle (the retry of
\* line 516 is the same tool without the MAINTAIN_EXTENT argument)
CS_Clip ==
    /\ cs_pc = "clip"
    /\ AlignOnly
    /\ IF Clip(rastname, snap_meta) = {}
       THEN /\ cs_err' = "ExecuteError"
            /\ cs_pc' = "failed"
            /\ UNCHANGED tempout
       ELSE /\ \E f \in Clip(rastname, snap_meta) : tempout' = <<f>>
            /\ cs_pc' = "load"
            /\ UNCHANGED cs_err
    /\ UNCHANGED <<snap_raster, rastname, argNoData, NoData_Value, meta, raster, xoffset,
                   yoffset, newraster, tempdir, tempout2, outfile>>

\* lines 518-521: load the clipped raster and find the offsets
CS_Load ==
    /\ cs_pc = "load"
    /\ AlignOnly
    /\ LET f == tempout[1] IN
        /\ raster' = f.data
        /\ meta' = Metadata(f)
        /\ xoffset' = Offset(f.Xmin, snap_meta.Xmin, f.cellWidth)
        /\ yoffset' = Offset(f.Ymin, snap_meta.Ymin, f.cellHeight)
        /\ cs_pc' = IF f.Xsize > snap_meta.Xsize \/ f.Ysize > snap_meta.Ysize
                    THEN "reclip" ELSE "place"
    /\ UNCHANGED <<snap_raster, rastname, argNoData, NoData_Value, newraster, cs_err,
                   fsVars>>

\* lines 525-531: a second clip when the first is larger than the snap raster
CS_Reclip ==
    /\ cs_pc = "reclip"
    /\ AlignOnly
    /\ \E f \in Clip(tempout[1], snap_meta) :
        /\ tempout2' = <<f>>
        /\ raster' = f.data
        /\ meta' = Metadata(f)
        /\ xoffset' = Offset(f.Xmin, snap_meta.Xmin, f.cellWidth)
        /\ yoffset' = Offset(f.Ymin, snap_meta.Ymin, f.cellHeight)
    /\ cs_pc' = "place"
    /\ UNCHANGED <<snap_raster, rastname, argNoData, NoData_Value, newraster, cs_err,
                   tempdir, tempout, outfile>>

\* lines 533-554: fill the output array and copy the candidate into its slice; numpy
\* raises ValueError when the candidate's shape does not broadcast into the slice
CS_Place ==
    /\ cs_pc = "place"
    /\ AlignOnly
    /\ LET rs == RowSlice(snap_meta, meta, yoffset)
           cs == ColSlice(snap_meta, meta, xoffset)
           rows == PySlice(rs[1], rs[2], snap_meta.Ysize)
           cols == PySlice(cs[1], cs[2], snap_meta.Xsize)
           r0 == PyBound(rs[1], snap_meta.Ysize)
           c0 == PyBound(cs[1], snap_meta.Xsize)
           filled == [p \in Cells(snap_meta.Ysize, snap_meta.Xsize) |->
                         FillValue(meta, NoData_Value)]
       IN  /\ meta' = [meta EXCEPT !.Xmin = snap_meta.Xmin, !.Ymin = snap_meta.Ymin]
           /\ IF /\ Broadcasts(meta.Ysize, Cardinality(rows))
                 /\ Broadcasts(meta.Xsize, Cardinality(cols))
              THEN /\ newraster' =
                        [p \in Cells(snap_meta.Ysize, snap_meta.Xsize) |->
                            IF p[1] \in rows /\ p[2] \in cols
                            THEN raster[<<IF meta.Ysize = 1 THEN 0 ELSE p[1] - r0,
                                          IF meta.Xsize = 1 THEN 0 ELSE p[2] - c0>>]
                            ELSE filled[p]]
                   /\ cs_pc' = "save"
                   /\ UNCHANGED cs_err
              ELSE /\ newraster' = filled
                   /\ cs_err' = "ValueError"
                   /\ cs_pc' = "failed"
    /\ UNCHANGED <<snap_raster, rastname, argNoData, NoData_Value, raster, xoffset,
                   yoffset, fsVars>>

\* line 555: save the output
CS_Save ==
    /\ cs_pc = "save"
    /\ AlignOnly
    /\ outfile' = <<from_numpy(newraster, meta, [given |-> TRUE, value |-> NoData_Value],
                               snap_meta.Ysize, snap_meta.Xsize)>>
    /\ cs_pc' = "cleanup"
    /\ UNCHANGED <<snap_raster, rastname, argNoData, NoData_Value, meta, raster, xoffset,
                   yoffset, newraster, cs_err, tempdir, tempout, tempout2>>

\* lines 557-559: remove the temp directory and what is in it
CS_Cleanup ==
    /\ cs_pc = "cleanup"
    /\ AlignOnly
    /\ tempdir' = FALSE
    /\ tempout' = <<>>
    /\ tempout2' = <<>>
    /\ cs_pc' = "done"
    /\ UNCHANGED <<snap_raster, rastname, argNoData, NoData_Value, meta, raster, xoffset,
                   yoffset, newraster, cs_err, outfile>>

clip_and_snap ==
    \/ CS_Begin
    \/ CS_Clip
    \/ CS_Load
    \/ CS_Reclip
    \/ CS_Place
    \/ CS_Save
    \/ CS_Cleanup

(***************************************************************************)
(* Inputs of clip_and_snap: a snap raster at the origin and a candidate of *)
(* the same cell size anywhere from just left of / below it to just right  *)
(* of / above it, half-cell positions included.                            *)
(***************************************************************************)
CellSizes == {2}
NoDataArgs == {[given |-> FALSE, value |-> 0],
               [given |-> TRUE, value |-> 0],
               [given |-> TRUE, value |-> -1]}
CandNoData == {-9999}

\* Every candidate pixel carries a value that names its position.
CandData(ys, xs) == [p \in Cells(ys, xs) |-> 1 + p[1] * xs + p[2]]

SnapRasters ==
    { RasterFile(0, 0, c, c, -9999, ys, xs, [p \in Cells(ys, xs) |-> 0], "snap")
      : c \in CellSizes, ys \in 1 .. MaxRef, xs \in 1 .. MaxRef }

Candidates(snap) ==
    UNION { { RasterFile(x, y, snap.cellWidth, snap.cellHeight, nd, ys, xs, CandData(ys, xs),
                         snap.projectionName)
              : x \in -(xs * snap.cellWidth) .. snap.Xsize * snap.cellWidth,
                y \in -(ys * snap.cellHeight) .. snap.Ysize * snap.cellHeight }
            : nd \in CandNoData, ys \in 1 .. MaxCand, xs \in 1 .. MaxCand }

\* The state of an operation that is not running.
IdleAlign ==
    /\ snap_raster = RasterFile(0, 0, 0, 0, 0, 0, 0, EmptyArray, "")
    /\ rastname = RasterFile(0, 0, 0, 0, 0, 0, 0, EmptyArray, "")
    /\ argNoData = [given |-> FALSE, value |-> 0]
    /\ cs_pc = "idle"
    /\ NoData_Value = 0
    /\ meta = NoMeta
    /\ raster = EmptyArray
    /\ xoffset = 0
    /\ yoffset = 0
    /\ newraster = EmptyArray
    /\ cs_err = ""
    /\ tempout = <<>>
    /\ tempout2 = <<>>
    /\ outfile = <<>>

IdleOverlap ==
    /\ file_A = EmptyArray
    /\ file_B = EmptyArray
    /\ NoData_A = 0
    /\ NoData_B = 0
    /\ a = EmptyArray
    /\ b = EmptyArray
    /\ Workmatrix = EmptyArray
    /\ fo_pc = "idle"

IdleStats ==
    /\ rasterlist = <<>>
    /\ saves = {}
    /\ low_thresh = [given |-> FALSE, value |-> 0]
    /\ high_thresh = [given |-> FALSE, value |-> 0]
    /\ ms_pc = "idle"
    /\ ms_i = 0
    /\ rast_3d = <<>>
    /\ avg_rast = <<>>
    /\ std_rast = <<>>
    /\ num_rast = <<>>
    /\ saved = <<>>
    /\ ms_err = ""

IdleMatch ==
    /\ sm_rasterlist = <<>>
    /\ resamp_type = [given |-> FALSE, value |-> ""]
    /\ sm_pc = "idle"
    /\ sm_i = 0
    /\ usetemp = FALSE
    /\ tempfiles = <<>>
    /\ matched = <<>>
    /\ sm_err = ""

IdleIsRast ==
    /\ ir_filename = <<>>
    /\ ir_isfile = FALSE
    /\ ir_pc = "idle"
    /\ ir_result = <<>>

IdleOutname ==
    /\ co_outdir = [given |-> FALSE, value |-> <<>>]
    /\ co_inname = [path |-> <<>>, isfile |-> FALSE]
    /\ co_suffix = ""
    /\ co_ext = [given |-> FALSE, value |-> <<>>]
    /\ co_pc = "idle"
    /\ co_result = [err |-> "", name |-> <<>>]

IdleGrab ==
    /\ gi_type = ""
    /\ gi_jday = 0
    /\ gi_grouping = [given |-> FALSE, value |-> 0]
    /\ gi_exists = FALSE
    /\ gi_pc = "idle"
    /\ gi_info = [j_day |-> <<>>, period |-> FALSE, custom |-> <<>>]
    /\ gi_err = ""

InitAlign ==
    /\ IdleIsRast
    /\ IdleOutname
    /\ IdleGrab
    /\ IdleOverlap
    /\ IdleStats
    /\ IdleMatch
    /\ snap_raster \in SnapRasters
    /\ rastname \in Candidates(snap_raster)
    /\ argNoData \in NoDataArgs
    /\ cs_pc = "begin"
    /\ NoData_Value = 0
    /\ meta = NoMeta
    /\ raster = EmptyArray
    /\ xoffset = 0
    /\ yoffset = 0
    /\ newraster = EmptyArray
    /\ cs_err = ""
    /\ tempdir = FALSE
    /\ tempout = <<>>
    /\ tempout2 = <<>>
    /\ outfile = <<>>

NextAlign == clip_and_snap

SpecAlign == InitAlign /\ [][NextAlign]_vars

(***************************************************************************)
(* Properties of clip_and_snap.                                            *)
(***************************************************************************)
\* The candidate lies within the snap raster's rectangle.
FullyInside(cand, snap) ==
    /\ Metadata(cand).Xmin >= Metadata(snap).Xmin
    /\ Metadata(cand).Xmax <= Metadata(snap).Xmax
    /\ Metadata(cand).Ymin >= Metadata(snap).Ymin
    /\ Metadata(cand).Ymax <= Metadata(snap).Ymax

\* The candidate and the snap raster's rectangle share no area.
ZeroOverlap(cand, snap) ==
    \/ Metadata(cand).Xmax <= Metadata(snap).Xmin
    \/ Metadata(cand).Xmin >= Metadata(snap).Xmax
    \/ Metadata(cand).Ymax <= Metadata(snap).Ymin
    \/ Metadata(cand).Ymin >= Metadata(snap).Ymax

\* The output cells the candidate was copied into (lines 553-554).
Covered ==
    LET rs == RowSlice(snap_meta, meta, yoffset)
        cs == ColSlice(snap_meta, meta, xoffset)
    IN  PySlice(rs[1], rs[2], snap_meta.Ysize) \X PySlice(cs[1], cs[2], snap_meta.Xsize)

\* C1: for a candidate fully inside the snap raster's extent, candidate column c
\* is output column xOffset + c, the candidate's bottom row lies yOffset rows
\* above the output's bottom row, and every other output cell is NoData.
C1_PlacedAtOffset ==
    (cs_pc = "done" /\ FullyInside(rastname, snap_raster)) =>
        LET xo == Offset(rastname.Xmin, snap_raster.Xmin, rastname.cellWidth)
            yo == Offset(rastname.Ymin, snap_raster.Ymin, rastname.cellHeight)
            out == outfile[1]
        IN  \A p \in Cells(snap_raster.Ysize, snap_raster.Xsize) :
                LET cr == p[1] - (snap_raster.Ysize - yo - rastname.Ysize)
                    cc == p[2] - xo
                IN  IF cr \in 0 .. rastname.Ysize - 1 /\ cc \in 0 .. rastname.Xsize - 1
                    THEN out.data[p] = rastname.data[<<cr, cc>>]
                    ELSE out.data[p] = out.NoData_Value

\* C4: for a candidate with zero overlap, clip_and_snap ends without an error and
\* saves a grid of the snap raster's shape in which every cell is NoData.
C4_ZeroOverlapAllNoData ==
    (cs_pc \in {"done", "failed"} /\ ZeroOverlap(rastname, snap_raster)) =>
        /\ cs_pc = "done"
        /\ cs_err = ""
        /\ outfile # <<>>
        /\ outfile[1].Ysize = snap_raster.Ysize
        /\ outfile[1].Xsize = snap_raster.Xsize
        /\ \A p \in Cells(snap_raster.Ysize, snap_raster.Xsize) :
                outfile[1].data[p] = outfile[1].NoData_Value

\* C5: the output cells not covered by candidate data hold the NoData override,
\* and the saved NoData value is the override, whenever one is supplied (0
\* included); the candidate's NoData value serves for both only without one.
C5_OverrideFillsAndIsRecorded ==
    cs_pc = "done" =>
        LET nd == IF argNoData.given THEN argNoData.value ELSE rastname.NoData_Value
        IN  /\ outfile[1].NoData_Value = nd
            /\ \A p \in Cells(snap_raster.Ysize, snap_raster.Xsize) \ Covered :
                    outfile[1].data[p] = nd

(***************************************************************************)
(* find_overlap(file_A, NoData_A, file_B, NoData_B, outpath): the mask     *)
(* computation of lines 355-367 on the two loaded arrays.                  *)
(***************************************************************************)
MaxCells == 2      \* the two rasters are 1 x n arrays, n in 1..MaxCells

\* lines 361-362: (v >= NoData * 0.99999) & (v <= NoData * 1.00001), the two
\* products compared exactly (both sides scaled by 100000)
InBand(v, nodata) ==
    /\ v * 100000 >= nodata * 99999
    /\ v * 100000 <= nodata * 100001

\* lines 361-362: arr[in band] = int(1)
MarkNoData(arr, nodata) ==
    [p \in DOMAIN arr |-> IF InBand(arr[p], nodata) THEN 1 ELSE arr[p]]

\* lines 366-367 applied to one cell of a + b, in this order
Threshold(v) ==
    LET v1 == IF v < 2 THEN 0 ELSE v
    IN  IF v1 >= 2 THEN 1 ELSE v1

\* lines 355-359: load the two rasters
FO_Load ==
    /\ fo_pc = "load"
    /\ OverlapOnly
    /\ a' = file_A
    /\ b' = file_B
    /\ Workmatrix' = [p \in DOMAIN file_A |-> 0]
    /\ fo_pc' = "mark"
    /\ UNCHANGED <<file_A, file_B, NoData_A, NoData_B>>

\* FO_Mark with NoData_A used for both arrays
FO_MarkSameNoData ==
    /\ fo_pc = "mark"
    /\ OverlapOnly
    /\ a' = MarkNoData(a, NoData_A)
    /\ b' = MarkNoData(b, NoData_A)
    /\ fo_pc' = "sum"
    /\ UNCHANGED <<file_A, file_B, NoData_A, NoData_B, Workmatrix>>

\* lines 361-362: overwrite the NoData cells of a and of b
FO_Mark ==
    /\ fo_pc = "mark"
    /\ OverlapOnly
    /\ a' = MarkNoData(a, NoData_A)
    /\ b' = MarkNoData(b, NoData_B)
    /\ fo_pc' = "sum"
    /\ UNCHANGED <<file_A, file_B, NoData_A, NoData_B, Workmatrix>>

\* lines 364-367: add the arrays and threshold the sum
FO_Sum ==
    /\ fo_pc = "sum"
    /\ OverlapOnly
    /\ Workmatrix' = [p \in DOMAIN a |-> Threshold(a[p] + b[p])]
    /\ fo_pc' = "done"
    /\ UNCHANGED <<file_A, file_B, NoData_A, NoData_B, a, b>>

find_overlap ==
    \/ FO_Load
    \/ FO_Mark
    \/ FO_Sum

OverlapValues == {-9999, 0, 1, 5}
OverlapNoData == {-9999, 0, 5}

InitOverlap ==
    /\ IdleIsRast
    /\ IdleOutname
    /\ IdleGrab
    /\ IdleAlign
    /\ IdleStats
    /\ IdleMatch
    /\ tempdir = FALSE
    /\ \E n \in 1 .. MaxCells :
        /\ file_A \in [Cells(1, n) -> OverlapValues]
        /\ file_B \in [Cells(1, n) -> OverlapValues]
    /\ NoData_A \in OverlapNoData
    /\ NoData_B \in OverlapNoData
    /\ a = EmptyArray
    /\ b = EmptyArray
    /\ Workmatrix = EmptyArray
    /\ fo_pc = "load"

NextOverlap == find_overlap

SpecOverlap == InitOverlap /\ [][NextOverlap]_vars

\* The tolerance band of a NoData value: within 0.001% of it, whatever its sign.
InToleranceBand(v, nodata) ==
    /\ v * 100000 >= Min(nodata * 99999, nodata * 100001)
    /\ v * 100000 <= Max(nodata * 99999, nodata * 100001)

\* C3: the output cell is 1 iff both a's and b's value at that cell are outside
\* the tolerance band of their NoData values, and 0 otherwise.
C3_OneIffBothHaveData ==
    fo_pc = "done" =>
        \A p \in DOMAIN file_A :
            Workmatrix[p] = IF /\ ~InToleranceBand(file_A[p], NoData_A)
                               /\ ~InToleranceBand(file_B[p], NoData_B)
                            THEN 1 ELSE 0

(***************************************************************************)
(* many_stats(rasterlist, outdir, outname, saves, low_thresh, high_thresh) *)
(*                                                                         *)
(* Every operation of many_stats on the arrays is elementwise (axis = 2),  *)
(* so the rasters are 1 x 1 arrays.  A cell of the stack is <<v>>, or <<>> *)
(* for nan, which line 241 masks.  A mean is the pair <<sum, count>>; a    *)
(* standard deviation is given by its square, the variance, as the pair    *)
(* <<count * sum of squares - sum^2, count^2>>.                            *)
(***************************************************************************)
MaxRasters == 3    \* rasterlist holds 1..MaxRasters rasters

Statistics == {"AVG", "STD", "NUM"}
StatCells == Cells(1, 1)

\* StackCell without lines 229-230: the NoData value stays in the stack as a number
StackCellKeepNoData(v, nodata, low, high) ==
    LET c2 == IF low.given /\ v < low.value THEN <<>> ELSE <<v>>
    IN  IF high.given /\ c2 # <<>> /\ c2[1] > high.value THEN <<>> ELSE c2

\* StackCell with the thresholds tested for truth ("if low_thresh:"), so that a
\* threshold of 0 counts as not given
StackCellTruthy(v, nodata, low, high) ==
    LET c1 == IF v = nodata THEN <<>> ELSE <<v>>
        c2 == IF ~PyFalsy(low) /\ c1 # <<>> /\ c1[1] < low.value THEN <<>> ELSE c1
    IN  IF ~PyFalsy(high) /\ c2 # <<>> /\ c2[1] > high.value THEN <<>> ELSE c2

\* lines 228-236 on one cell: NoData becomes nan, then values below low_thresh
\* and above high_thresh become nan (a comparison with nan is false)
StackCell(v, nodata, low, high) ==
    LET c1 == IF v = nodata THEN <<>> ELSE <<v>>
        c2 == IF low.given /\ c1 # <<>> /\ c1[1] < low.value THEN <<>> ELSE c1
    IN  IF high.given /\ c2 # <<>> /\ c2[1] > high.value THEN <<>> ELSE c2

\* The unmasked values of the stack at cell p, in stack order.
Unmasked(stack, p) ==
    LET F[i \in 0 .. Len(stack)] ==
            IF i = 0 THEN <<>>
            ELSE IF stack[i][p] = <<>> THEN F[i - 1] ELSE Append(F[i - 1], stack[i][p][1])
    IN  F[Len(stack)]

SeqSum(s) ==
    LET F[i \in 0 .. Len(s)] == IF i = 0 THEN 0 ELSE F[i - 1] + s[i]
    IN  F[Len(s)]

SeqSumSq(s) ==
    LET F[i \in 0 .. Len(s)] == IF i = 0 THEN 0 ELSE F[i - 1] + s[i] * s[i]
    IN  F[Len(s)]

\* line 244: numpy.mean of the masked stack along axis 2
MeanCell(stack, p) ==
    LET u == Unmasked(stack, p)
    IN  IF u = <<>> THEN <<>> ELSE <<SeqSum(u), Len(u)>>

\* line 254: numpy.std of the masked stack along axis 2 (as its square)
StdCell(stack, p) ==
    LET u == Unmasked(stack, p)
    IN  IF u = <<>> THEN <<>>
        ELSE <<Len(u) * SeqSumSq(u) - SeqSum(u) * SeqSum(u), Len(u) * Len(u)>>

\* line 264: zs minus the number of masked layers
NumCell(stack, p) ==
    Len(stack) - Cardinality({i \in 1 .. Len(stack) : stack[i][p] = <<>>})

\* lines 201-215: the output directory, the first raster's shape, the empty stack
MS_Begin ==
    /\ ms_pc = "begin"
    /\ StatsOnly
    /\ rast_3d' = <<>>
    /\ ms_i' = 0
    /\ ms_pc' = "stack"
    /\ UNCHANGED <<rasterlist, saves, low_thresh, high_thresh, avg_rast, std_rast,
                   num_rast, saved, ms_err>>

\* lines 217-238: one pass of the loop: load a raster, mark its NoData cells and
\* the values outside the thresholds, store it in the stack
MS_Stack ==
    /\ ms_pc = "stack"
    /\ StatsOnly
    /\ ms_i < Len(rasterlist)
    /\ LET new == rasterlist[ms_i + 1]
       IN  rast_3d' = Append(rast_3d,
                [p \in StatCells |->
                    StackCell(new.data[p], new.NoData_Value, low_thresh, high_thresh)])
    /\ ms_i' = ms_i + 1
    /\ ms_pc' = IF ms_i + 1 = Len(rasterlist) THEN "avg" ELSE "stack"
    /\ UNCHANGED <<rasterlist, saves, low_thresh, high_thresh, avg_rast, std_rast,
                   num_rast, saved, ms_err>>

\* lines 240-251: the average
MS_Avg ==
    /\ ms_pc = "avg"
    /\ StatsOnly
    /\ IF "AVG" \in saves
       THEN /\ avg_rast' = <<[p \in StatCells |-> MeanCell(rast_3d, p)]>>
            /\ saved' = [saved EXCEPT !["AVG"] = avg_rast']
       ELSE UNCHANGED <<avg_rast, saved>>
    /\ ms_pc' = "std"
    /\ UNCHANGED <<rasterlist, saves, low_thresh, high_thresh, ms_i, rast_3d, std_rast,
                   num_rast, ms_err>>

\* lines 253-261: the standard deviation; line 256 reads avg_rast
MS_Std ==
    /\ ms_pc = "std"
    /\ StatsOnly
    /\ IF "STD" \in saves
       THEN /\ std_rast' = <<[p \in StatCells |-> StdCell(rast_3d, p)]>>
            /\ IF avg_rast = <<>>
               THEN /\ ms_err' = "UnboundLocalError"
                    /\ ms_pc' = "failed"
                    /\ UNCHANGED saved
               ELSE /\ saved' = [saved EXCEPT !["STD"] = std_rast']
                    /\ ms_pc' = "num"
                    /\ UNCHANGED ms_err
       ELSE /\ ms_pc' = "num"
            /\ UNCHANGED <<std_rast, saved, ms_err>>
    /\ UNCHANGED <<rasterlist, saves, low_thresh, high_thresh, ms_i, rast_3d, avg_rast,
                   num_rast>>

\* lines 263-271: the count; line 266 reads avg_rast, line 269 assigns std_name
\* and line 271 reads num_name, which is never assigned
MS_Num ==
    /\ ms_pc = "num"
    /\ StatsOnly
    /\ IF "NUM" \in saves
       THEN /\ num_rast' = <<[p \in StatCells |-> NumCell(rast_3d, p)]>>
            /\ ms_err' = IF avg_rast = <<>> THEN "UnboundLocalError" ELSE "NameError"
            /\ ms_pc' = "failed"
       ELSE /\ ms_pc' = "close"
            /\ UNCHANGED <<num_rast, ms_err>>
    /\ UNCHANGED <<rasterlist, saves, low_thresh, high_thresh, ms_i, rast_3d, avg_rast,
                   std_rast, saved>>

\* lines 273-275
MS_Close ==
    /\ ms_pc = "close"
    /\ StatsOnly
    /\ ms_pc' = "done"
    /\ UNCHANGED <<rasterlist, saves, low_thresh, high_thresh, ms_i, rast_3d, avg_rast,
                   std_rast, num_rast, saved, ms_err>>

many_stats ==
    \/ MS_Begin
    \/ MS_Stack
    \/ MS_Avg
    \/ MS_Std
    \/ MS_Num
    \/ MS_Close

StatValues == {-9999, 1, 3}
StatNoData == {-9999, 0}
LowThresholds == {[given |-> FALSE, value |-> 0], [given |-> TRUE, value |-> 0],
                  [given |-> TRUE, value |-> 1]}
HighThresholds == {[given |-> FALSE, value |-> 0], [given |-> TRUE, value |-> 0],
                   [given |-> TRUE, value |-> 1]}

StatRasters == {[NoData_Value |-> nd, data |-> d] :
                    nd \in StatNoData, d \in [StatCells -> StatValues]}

InitStats ==
    /\ IdleIsRast
    /\ IdleOutname
    /\ IdleGrab
    /\ IdleAlign
    /\ IdleOverlap
    /\ IdleMatch
    /\ tempdir = FALSE
    /\ \E zs \in 1 .. MaxRasters : rasterlist \in [1 .. zs -> StatRasters]
    /\ saves \in SUBSET Statistics
    /\ low_thresh \in LowThresholds
    /\ high_thresh \in HighThresholds
    /\ ms_pc = "begin"
    /\ ms_i = 0
    /\ rast_3d = <<>>
    /\ avg_rast = <<>>
    /\ std_rast = <<>>
    /\ num_rast = <<>>
    /\ saved = [s \in Statistics |-> <<>>]
    /\ ms_err = ""

NextStats == many_stats

SpecStats == InitStats /\ [][NextStats]_vars

(***************************************************************************)
(* Properties of many_stats.                                               *)
(***************************************************************************)
\* The rasters whose value at cell p is not their own NoData value and is not
\* outside the thresholds.
ValidRasters(p) ==
    {i \in 1 .. Len(rasterlist) :
        /\ rasterlist[i].data[p] # rasterlist[i].NoData_Value
        /\ ~(low_thresh.given /\ rasterlist[i].data[p] < low_thresh.value)
        /\ ~(high_thresh.given /\ rasterlist[i].data[p] > high_thresh.value)}

RECURSIVE SumOver(_, _)
SumOver(S, p) ==
    IF S = {} THEN 0
    ELSE LET i == CHOOSE j \in S : TRUE
         IN  rasterlist[i].data[p] + SumOver(S \ {i}, p)

\* C6: at every cell, AVG is the mean of the values of the rasters that hold
\* data there, and NUM is the number of those rasters.
C6_AvgAndNumOverValid ==
    \A p \in StatCells :
        /\ avg_rast # <<>> =>
              IF ValidRasters(p) = {} THEN avg_rast[1][p] = <<>>
              ELSE /\ avg_rast[1][p] # <<>>
                   /\ avg_rast[1][p][1] * Cardinality(ValidRasters(p))
                          = SumOver(ValidRasters(p), p) * avg_rast[1][p][2]
        /\ num_rast # <<>> => num_rast[1][p] = Cardinality(ValidRasters(p))

\* C6, its example: values 1, -9999, 3 with NoData -9999 give AVG 4/2 and NUM 2.
C6_Witness ==
    /\ Len(rasterlist) = 3
    /\ \A i \in 1 .. 3 : rasterlist[i].NoData_Value = -9999
    /\ rasterlist[1].data[<<0, 0>>] = 1
    /\ rasterlist[2].data[<<0, 0>>] = -9999
    /\ rasterlist[3].data[<<0, 0>>] = 3
    /\ ~low_thresh.given /\ ~high_thresh.given
    /\ avg_rast # <<>> /\ avg_rast[1][<<0, 0>>] = <<4, 2>>
    /\ num_rast # <<>> /\ num_rast[1][<<0, 0>>] = 2

\* C7: for every non-empty set of statistics asked for, many_stats ends without
\* an error and has saved one raster for each statistic asked for and no other.
C7_EverySubsetSaved ==
    (ms_pc \in {"done", "failed"} /\ saves # {}) =>
        /\ ms_pc = "done"
        /\ ms_err = ""
        /\ \A s \in Statistics : (saved[s] # <<>>) <=> (s \in saves)

(***************************************************************************)
(* core.create_outname(outdir, inname, suffix, ext = False)                *)
(*                                                                         *)
(* A path is a sequence of tokens, "/" and "." among them.  outdir and ext *)
(* are [given |-> FALSE] for Python False; inname is the path and whether  *)
(* os.path.isfile holds of it.  The result is [err, name].                 *)
(***************************************************************************)
\* The last position of token c in s, 0 if there is none.
LastIndexOf(s, c) ==
    LET at == {i \in 1 .. Len(s) : s[i] = c}
    IN  IF at = {} THEN 0 ELSE CHOOSE i \in at : \A k \in at : k <= i

\* os.path.split
PathHead(path) == SubSeq(path, 1, LastIndexOf(path, "/") - 1)
PathTail(path) == SubSeq(path, LastIndexOf(path, "/") + 1, Len(path))

\* '.'.join(t.split('.')[:-1]): what precedes the last "."; '' without a "."
BeforeLastDot(t) == SubSeq(t, 1, LastIndexOf(t, ".") - 1)

\* ''.join(t.split('.')[-1:]): what follows the last "."; all of t without a "."
AfterLastDot(t) == SubSeq(t, LastIndexOf(t, ".") + 1, Len(t))

\* os.path.join(dir, p)
PathJoin(dir, p) ==
    IF p # <<>> /\ p[1] = "/" THEN p
    ELSE IF dir = <<>> THEN p
    ELSE dir \o <<"/">> \o p

NotDot(c) == c # "."

\* lines 34-62
create_outname(outdir, inname, suffix, ext) ==
    IF ~ext.given
    THEN \* line 35: False has no replace
         [err |-> "AttributeError", name |-> <<>>]
    ELSE LET ext1  == SelectSeq(ext.value, NotDot)                               \* line 35
             tail  == IF inname.isfile THEN PathTail(inname.path) ELSE inname.path
             noext == IF inname.isfile \/ LastIndexOf(inname.path, ".") > 0     \* 38-48
                      THEN BeforeLastDot(tail) ELSE inname.path
             sfx   == <<"_", suffix, ".">> \o                                   \* 51-55
                         (IF ext1 # <<>> THEN ext1 ELSE AfterLastDot(tail))
         IN  IF outdir.given /\ outdir.value # <<>>                             \* 57-62
             THEN [err |-> "", name |-> PathJoin(outdir.value, noext \o sfx)]
             ELSE IF inname.isfile
                  THEN [err |-> "", name |-> PathJoin(PathHead(inname.path), noext \o sfx)]
                  ELSE [err |-> "UnboundLocalError", name |-> <<>>]

CO_Call ==
    /\ co_pc = "call"
    /\ OutnameOnly
    /\ co_result' = create_outname(co_outdir, co_inname, co_suffix, co_ext)
    /\ co_pc' = "done"
    /\ UNCHANGED <<co_outdir, co_inname, co_suffix, co_ext>>

(***************************************************************************)
(* spatially_match(snap_raster, rasterlist, outdir, numtype, NoData_Value, *)
(*                 resamp_type)                                            *)
(*                                                                         *)
(* A candidate file is its projection name and cell size (in millionths of *)
(* the snap raster's cell) plus the operations that made it from the       *)
(* original file.                                                          *)
(***************************************************************************)
MaxCands == 2      \* rasterlist holds 0..MaxCands candidates

SnapGrid == [projectionName |-> "snap", cellHeight |-> 1000000, cellWidth |-> 1000000]

\* round(float(n) / float(d), 5), in units of 0.00001; the whole part of the
\* quotient is split off so that the products stay within 32 bits
Round5(n, d) == (n \div d) * 100000 + PyRound((n % d) * 100000, d)

\* line 430
ProjectionDiffers(m) == SnapGrid.projectionName # m.projectionName

\* lines 435-436: the condition under which the cell sizes are taken to differ
ResolutionDiffers(m) ==
    /\ Round5(SnapGrid.cellHeight, m.cellHeight) # 100000
    /\ Round5(SnapGrid.cellWidth, m.cellWidth) # 100000

\* line 432, core.project(rastname, snap_raster, tempname, resamp_type, snap_raster):
\* the file reprojected to the snap raster's projection and cell size
Project(f) ==
    [projectionName |-> SnapGrid.projectionName,
     cellHeight |-> SnapGrid.cellHeight, cellWidth |-> SnapGrid.cellWidth,
     ops |-> Append(f.ops, "project")]

\* lines 439-440, arcpy.Resample_management(in, out, cell_size, resamp_type): the
\* file resampled to the snap raster's cell size, in its own projection
Resample(f) ==
    [projectionName |-> f.projectionName,
     cellHeight |-> SnapGrid.cellHeight, cellWidth |-> SnapGrid.cellWidth,
     ops |-> Append(f.ops, "resample")]

\* line 440: the file the resampling reads
ResampleInput(original, temp) == original

\* lines 444-445: the exception is not caught in the loop, so it leaves the
\* function whatever the position i in a list of n candidates.  The variant keeps
\* the error and goes on with the next candidate.
RaiseAndContinue(i, n) == IF i = n THEN "finish" ELSE "meta"

Raise(i, n) == "failed"

NoTempFiles == [i \in 1 .. Len(sm_rasterlist) |-> <<>>]

\* lines 403-421: make the output and temp directories, load the snap raster
SM_Begin ==
    /\ sm_pc = "begin"
    /\ MatchOnly
    /\ tempdir' = TRUE
    /\ usetemp' = FALSE
    /\ sm_i' = 0
    /\ sm_pc' = IF Len(sm_rasterlist) = 0 THEN "finish" ELSE "meta"
    /\ UNCHANGED <<sm_rasterlist, resamp_type, tempfiles, matched, sm_err>>

\* lines 424-428: the next candidate of the loop, its metadata and temp name
SM_Meta ==
    /\ sm_pc = "meta"
    /\ MatchOnly
    /\ sm_i' = sm_i + 1
    /\ sm_pc' = "project"
    /\ UNCHANGED <<sm_rasterlist, resamp_type, usetemp, tempfiles, matched, sm_err,
                   tempdir>>

\* lines 430-433: reproject into the temp directory when the projections differ
SM_Project ==
    /\ sm_pc = "project"
    /\ MatchOnly
    /\ IF ProjectionDiffers(sm_rasterlist[sm_i])
       THEN IF tempdir
            THEN /\ tempfiles' = [tempfiles EXCEPT ![sm_i] = <<Project(sm_rasterlist[sm_i])>>]
                 /\ usetemp' = TRUE
                 /\ sm_pc' = "resolution"
                 /\ UNCHANGED sm_err
            ELSE /\ sm_err' = "ExecuteError"
                 /\ sm_pc' = "failed"
                 /\ UNCHANGED <<tempfiles, usetemp>>
       ELSE /\ sm_pc' = "resolution"
            /\ UNCHANGED <<tempfiles, usetemp, sm_err>>
    /\ UNCHANGED <<sm_rasterlist, resamp_type, sm_i, matched, tempdir>>

\* lines 435-445: resample into the temp directory when the cell sizes differ and a
\* resampling type is given; raise when they differ and none is given
SM_Resolution ==
    /\ sm_pc = "resolution"
    /\ MatchOnly
    /\ IF ResolutionDiffers(sm_rasterlist[sm_i])
       THEN IF resamp_type.given
            THEN IF tempdir
                 THEN /\ tempfiles' = [tempfiles EXCEPT ![sm_i] =
                            <<Resample(ResampleInput(sm_rasterlist[sm_i], tempfiles[sm_i]))>>]
                      /\ usetemp' = TRUE
                      /\ sm_pc' = "snap"
                      /\ UNCHANGED sm_err
                 ELSE /\ sm_err' = "ExecuteError"
                      /\ sm_pc' = "failed"
                      /\ UNCHANGED <<tempfiles, usetemp>>
            ELSE /\ sm_err' = "ResolutionMismatch"
                 /\ sm_pc' = Raise(sm_i, Len(sm_rasterlist))
                 /\ UNCHANGED <<tempfiles, usetemp>>
       ELSE /\ sm_pc' = "snap"
            /\ UNCHANGED <<tempfiles, usetemp, sm_err>>
    /\ UNCHANGED <<sm_rasterlist, resamp_type, sm_i, matched, tempdir>>

\* lines 447-457: name the output and call clip_and_snap on the temp file or on the
\* candidate.  clip_and_snap's temp directory (lines 500-504) is this function's;
\* it makes it if needed, writes the output and removes it (lines 557-559); it
\* fails in to_numpy when the file it is given does not exist.
SM_Snap ==
    /\ sm_pc = "snap"
    /\ MatchOnly
    /\ LET outname == create_outname([given |-> TRUE, value |-> <<"outdir">>],
                                     [path |-> <<"cand", ".", "tif">>, isfile |-> TRUE],
                                     "matched", [given |-> FALSE, value |-> <<>>])
           input == IF usetemp THEN tempfiles[sm_i] ELSE <<sm_rasterlist[sm_i]>>
       IN  IF outname.err # ""
           THEN /\ sm_err' = outname.err
                /\ sm_pc' = "failed"
                /\ UNCHANGED <<matched, tempdir, tempfiles>>
           ELSE IF input = <<>>
                THEN /\ sm_err' = "UnboundLocalError"
                     /\ sm_pc' = "failed"
                     /\ UNCHANGED <<matched, tempdir, tempfiles>>
                ELSE /\ matched' = [matched EXCEPT ![sm_i] = input]
                     /\ tempdir' = FALSE
                     /\ tempfiles' = NoTempFiles
                     /\ sm_pc' = IF sm_i = Len(sm_rasterlist) THEN "finish" ELSE "meta"
                     /\ UNCHANGED sm_err
    /\ UNCHANGED <<sm_rasterlist, resamp_type, sm_i, usetemp>>

\* lines 459-460: remove the temp directory; rmtree raises when it is not there
SM_Finish ==
    /\ sm_pc = "finish"
    /\ MatchOnly
    /\ IF tempdir
       THEN /\ tempdir' = FALSE
            /\ tempfiles' = NoTempFiles
            /\ sm_pc' = "done"
            /\ UNCHANGED sm_err
       ELSE /\ sm_err' = "OSError"
            /\ sm_pc' = "failed"
            /\ UNCHANGED <<tempdir, tempfiles>>
    /\ UNCHANGED <<sm_rasterlist, resamp_type, sm_i, usetemp, matched>>

spatially_match ==
    \/ SM_Begin
    \/ SM_Meta
    \/ SM_Project
    \/ SM_Resolution
    \/ SM_Snap
    \/ SM_Finish

Projections == {"snap", "other"}
CandCellSizes == {1000000, 999996, 999994, 500000}
ResampTypes == {[given |-> FALSE, value |-> ""], [given |-> TRUE, value |-> "NEAREST"]}

MatchCandidates ==
    {[projectionName |-> pr, cellHeight |-> h, cellWidth |-> w, ops |-> <<>>] :
        pr \in Projections, h \in CandCellSizes, w \in CandCellSizes}

InitMatch ==
    /\ IdleIsRast
    /\ IdleOutname
    /\ IdleGrab
    /\ IdleAlign
    /\ IdleOverlap
    /\ IdleStats
    /\ tempdir = FALSE
    /\ \E n \in 0 .. MaxCands : sm_rasterlist \in [1 .. n -> MatchCandidates]
    /\ resamp_type \in ResampTypes
    /\ sm_pc = "begin"
    /\ sm_i = 0
    /\ usetemp = FALSE
    /\ tempfiles = NoTempFiles
    /\ matched = NoTempFiles
    /\ sm_err = ""

NextMatch == spatially_match

SpecMatch == InitMatch /\ [][NextMatch]_vars

(***************************************************************************)
(* Properties of spatially_match.                                          *)
(***************************************************************************)
\* A cell height or a cell width whose ratio to the snap raster's, rounded to 5
\* places, is not 1.
CellSizeMismatch(m) ==
    \/ Round5(SnapGrid.cellHeight, m.cellHeight) # 100000
    \/ Round5(SnapGrid.cellWidth, m.cellWidth) # 100000

\* The candidate in hand has left the resolution check of lines 435-445.
PastResolutionCheck ==
    /\ sm_i >= 1
    /\ sm_pc \in {"snap", "meta", "finish", "done", "failed"}

\* C2: with no resampling type, a candidate whose cell height or cell width
\* (either one, or both) is out of tolerance makes the call fail with the
\* resolution-mismatch error; it never goes on to be aligned.
C2_AnyMismatchRaises ==
    (/\ PastResolutionCheck
     /\ ~resamp_type.given
     /\ CellSizeMismatch(sm_rasterlist[sm_i]))
        => (sm_pc = "failed" /\ sm_err = "ResolutionMismatch")

C9_TempRemovedOnEveryExit ==
    /\ sm_pc \in {"done", "failed"} =>
          (tempdir = FALSE /\ \A j \in 1 .. Len(sm_rasterlist) : tempfiles[j] = <<>>)
    /\ cs_pc \in {"done", "failed"} =>
          (tempdir = FALSE /\ tempout = <<>> /\ tempout2 = <<>>)

\* C10: for a candidate of another projection and another cell size, with a
\* resampling type given, the file about to be handed to clip_and_snap is the
\* candidate reprojected and then resampled, in the snap raster's projection.
C10_ResampleKeepsReprojection ==
    (/\ sm_pc = "snap"
     /\ resamp_type.given
     /\ ProjectionDiffers(sm_rasterlist[sm_i])
     /\ ResolutionDiffers(sm_rasterlist[sm_i]))
        => /\ usetemp
           /\ tempfiles[sm_i] # <<>>
           /\ tempfiles[sm_i][1].ops = <<"project", "resample">>
           /\ tempfiles[sm_i][1].projectionName = SnapGrid.projectionName

(***************************************************************************)
(* Further properties of clip_and_snap.                                    *)
(***************************************************************************)
\* The loaded candidate is wider or taller than the snap raster (the test of line 525).
Oversized == meta.Xsize > snap_meta.Xsize \/ meta.Ysize > snap_meta.Ysize

\* C11: the clip is repeated at most once (after the second clip the code goes on
\* to place the result), and a candidate that is still wider or taller than the
\* snap raster after it ends the call in an error with no output written.
C11_OneReclipThenFail ==
    /\ [][cs_pc = "reclip" => cs_pc' = "place"]_vars
    /\ []((cs_pc \in {"save", "cleanup", "done", "failed"} /\ Oversized)
            => (cs_pc = "failed" /\ cs_err # "" /\ outfile = <<>>))

\* C11: a run that failed with the twice-clipped candidate still oversized.
C11_Witness ==
    /\ cs_pc = "failed"
    /\ tempout2 # <<>>
    /\ Oversized
    /\ outfile = <<>>

(***************************************************************************)
(* clip_and_snap called on its own with any candidate: the projection and  *)
(* the cell size of the candidate need not be the snap raster's.           *)
(***************************************************************************)
AnyCellSizes == {1, 2}

AnyCandidates(snap) ==
    UNION { UNION { { RasterFile(x, y, cw, ch, -9999, ys, xs, CandData(ys, xs), pr)
                      : x \in -(xs * cw) .. snap.Xsize * snap.cellWidth,
                        y \in -(ys * ch) .. snap.Ysize * snap.cellHeight }
                    : ys \in 1 .. MaxCand, xs \in 1 .. MaxCand }
            : cw \in AnyCellSizes, ch \in AnyCellSizes, pr \in Projections }

InitAlignAny ==
    /\ IdleIsRast
    /\ IdleOutname
    /\ IdleGrab
    /\ IdleOverlap
    /\ IdleStats
    /\ IdleMatch
    /\ snap_raster \in SnapRasters
    /\ rastname \in AnyCandidates(snap_raster)
    /\ argNoData = [given |-> FALSE, value |-> 0]
    /\ cs_pc = "begin"
    /\ NoData_Value = 0
    /\ meta = NoMeta
    /\ raster = EmptyArray
    /\ xoffset = 0
    /\ yoffset = 0
    /\ newraster = EmptyArray
    /\ cs_err = ""
    /\ tempdir = FALSE
    /\ tempout = <<>>
    /\ tempout2 = <<>>
    /\ outfile = <<>>

SpecAlignAny == InitAlignAny /\ [][NextAlign]_vars

\* The candidate is not in the snap raster's projection, or its cell height or
\* cell width is out of the 5-decimal tolerance.
NotMatched(cand, snap) ==
    \/ cand.projectionName # snap.projectionName
    \/ Round5(snap.cellHeight, cand.cellHeight) # 100000
    \/ Round5(snap.cellWidth, cand.cellWidth) # 100000

\* C12: called with a candidate of another projection or another cell size,
\* clip_and_snap fails and writes no output file.
C12_MismatchFailsNoOutput ==
    NotMatched(rastname, snap_raster) =>
        /\ outfile = <<>>
        /\ cs_pc \in {"done", "failed"} => cs_pc = "failed"

(***************************************************************************)
(* clip_and_snap applied again to its own output: once a call has          *)
(* returned, the file it saved is the candidate of a new call with the     *)
(* same snap raster and the same arguments.                                *)
(***************************************************************************)
CS_Again ==
    /\ cs_pc = "done"
    /\ AlignOnly
    /\ rastname' = outfile[1]
    /\ outfile' = <<>>
    /\ cs_pc' = "begin"
    /\ NoData_Value' = 0
    /\ meta' = NoMeta
    /\ raster' = EmptyArray
    /\ xoffset' = 0
    /\ yoffset' = 0
    /\ newraster' = EmptyArray
    /\ UNCHANGED <<snap_raster, argNoData, cs_err, tempdir, tempout, tempout2>>

NextAlignTwice ==
    \/ clip_and_snap
    \/ CS_Again

SpecAlignTwice == InitAlign /\ [][NextAlignTwice]_vars

\* Same origin, same dimensions and same cell size.
Coincident(f, g) ==
    /\ f.Xmin = g.Xmin /\ f.Ymin = g.Ymin
    /\ f.Xsize = g.Xsize /\ f.Ysize = g.Ysize
    /\ f.cellWidth = g.cellWidth /\ f.cellHeight = g.cellHeight

\* C13: for a candidate coincident with the snap raster the call returns, and the
\* grid it saves is coincident with the candidate and holds the candidate's cell
\* values; this covers the call on a first result, which is such a candidate.
C13_CoincidentUnchanged ==
    Coincident(rastname, snap_raster) =>
        /\ cs_pc # "failed"
        /\ outfile # <<>> =>
              /\ Coincident(outfile[1], rastname)
              /\ outfile[1].data = rastname.data

\* C13: a second call has returned: its candidate is the saved result of a call
\* on a grid that was coincident from the start (it carries the NoData value -1
\* that only a call with that argument records), and its result is that grid again.
C13_Witness ==
    /\ cs_pc = "done"
    /\ Coincident(rastname, snap_raster)
    /\ rastname.NoData_Value = -1
    /\ rastname = outfile[1]
    /\ rastname.data = CandData(snap_raster.Ysize, snap_raster.Xsize)
    /\ snap_raster.Xsize > 1 /\ snap_raster.Ysize > 1

(***************************************************************************)
(* Further properties of find_overlap.                                     *)
(***************************************************************************)
\* lines 361-367 as one function of the two arrays and their NoData values
OverlapMask(fa, na, fb, nb) ==
    [p \in DOMAIN fa |-> Threshold(MarkNoData(fa, na)[p] + MarkNoData(fb, nb)[p])]

C20_ExactNoDataIsMarked ==
    fo_pc \in {"sum", "done"} =>
        \A p \in DOMAIN file_A :
            /\ (NoData_A # 0 /\ file_A[p] = NoData_A) => a[p] = 1
            /\ (NoData_B # 0 /\ file_B[p] = NoData_B) => b[p] = 1

(***************************************************************************)
(* is_rast(filename)                                                       *)
(*                                                                         *)
(* A file name is a sequence of characters.                                *)
(***************************************************************************)
\* lines 283-284
rast_types ==
    <<
       <<"b", "i", "l">>, <<"b", "i", "p">>, <<"b", "m", "p">>, <<"b", "s", "q">>,
       <<"d", "a", "t">>, <<"g", "i", "f">>, <<"i", "m", "g">>, <<"j", "p", "g">>,
       <<"j", "p", "2">>, <<"p", "n", "g">>, <<"t", "i", "f">>,
       <<"B", "I", "L">>, <<"B", "I", "P">>, <<"B", "M", "P">>, <<"B", "S", "Q">>,
       <<"D", "A", "T">>, <<"G", "I", "F">>, <<"I", "M", "G">>, <<"J", "P", "G">>,
       <<"J", "P", "2">>, <<"P", "N", "G">>, <<"T", "I", "F">>
    >>

\* line 285, filename[-3:]: the last three characters, or all of a shorter name
LastThree(filename) == SubSeq(filename, Max(1, Len(filename) - 2), Len(filename))

\* lines 285-291
is_rast(filename, isfile) ==
    IF isfile
    THEN \E i \in 1 .. Len(rast_types) : LastThree(filename) = rast_types[i]
    ELSE FALSE

IR_Call ==
    /\ ir_pc = "call"
    /\ IsRastOnly
    /\ ir_result' = <<is_rast(ir_filename, ir_isfile)>>
    /\ ir_pc' = "done"
    /\ UNCHANGED <<ir_filename, ir_isfile>>

\* File names <base>.<extension> with an extension of one to three characters.
ExtChars == {"t", "i", "f", "T", "I", "F", "x"}
FileNames ==
    UNION { { <<"a", ".">> \o e : e \in [1 .. n -> ExtChars] } : n \in 1 .. 3 }

InitIsRast ==
    /\ IdleAlign
    /\ IdleOverlap
    /\ IdleStats
    /\ IdleMatch
    /\ IdleOutname
    /\ IdleGrab
    /\ tempdir = FALSE
    /\ ir_filename \in FileNames
    /\ ir_isfile \in BOOLEAN
    /\ ir_pc = "call"
    /\ ir_result = <<>>

NextIsRast == IR_Call

SpecIsRast == InitIsRast /\ [][NextIsRast]_vars

\* The lower-case form of the letters of the recognised extensions.
ToLower ==
    "A" :> "a" @@ "B" :> "b" @@ "D" :> "d" @@ "F" :> "f" @@ "G" :> "g"
    @@ "I" :> "i" @@ "J" :> "j" @@ "L" :> "l" @@ "M" :> "m" @@ "N" :> "n"
    @@ "P" :> "p" @@ "Q" :> "q" @@ "S" :> "s" @@ "T" :> "t"
Lower(c) == IF c \in DOMAIN ToLower THEN ToLower[c] ELSE c

\* The characters after the last "." of the name, in lower case.
LowerExtension(filename) ==
    LET dots == {i \in 1 .. Len(filename) : filename[i] = "."}
        last == IF dots = {} THEN Len(filename) ELSE CHOOSE i \in dots : \A j \in dots : j <= i
    IN  [k \in 1 .. Len(filename) - last |-> Lower(filename[last + k])]

\* The recognised extensions, lower case.
RecognisedExtensions == {rast_types[i] : i \in 1 .. 11}

\* C15: is_rast returns True exactly for an existing file whose extension,
\* compared without regard to case, is one of the recognised ones.
C15_CaseInsensitive ==
    ir_pc = "done" =>
        (ir_result[1] <=>
            (ir_isfile /\ LowerExtension(ir_filename) \in RecognisedExtensions))

(***************************************************************************)
(* core.create_outname on its own.                                         *)
(***************************************************************************)
OutDirs == {[given |-> FALSE, value |-> <<>>], [given |-> TRUE, value |-> <<"out">>]}
InNames ==
    { [path |-> pth, isfile |-> f] :
        pth \in { <<"a", ".", "tif">>, <<"a">>, <<"a", ".", "b", ".", "tif">>,
                  <<"sub", "/", "a", ".", "tif">>, <<"sub", "/", "a">> },
        f \in BOOLEAN }
Suffixes == {"matched", "AVG"}
Exts == {[given |-> FALSE, value |-> <<>>]} \cup
        {[given |-> TRUE, value |-> v] :
            v \in {<<>>, <<"tif">>, <<".", "tif">>, <<"img">>}}

InitOutname ==
    /\ IdleAlign
    /\ IdleOverlap
    /\ IdleStats
    /\ IdleMatch
    /\ IdleIsRast
    /\ IdleGrab
    /\ tempdir = FALSE
    /\ co_outdir \in OutDirs
    /\ co_inname \in InNames
    /\ co_suffix \in Suffixes
    /\ co_ext \in Exts
    /\ co_pc = "call"
    /\ co_result = [err |-> "", name |-> <<>>]

NextOutname == CO_Call

SpecOutname == InitOutname /\ [][NextOutname]_vars

\* The file name of a path without its last extension, and that extension.
BaseName(path) ==
    IF LastIndexOf(PathTail(path), ".") = 0 THEN PathTail(path)
    ELSE BeforeLastDot(PathTail(path))
ExtensionOf(path) ==
    IF LastIndexOf(PathTail(path), ".") = 0 THEN <<>> ELSE AfterLastDot(PathTail(path))

\* The extension given, without a leading dot.
WithoutLeadingDot(x) == IF x # <<>> /\ x[1] = "." THEN Tail(x) ELSE x

\* C16: with an output directory and an input name that has an extension, the
\* call raises nothing and returns outdir/<base>_<suffix>.<ext>, the extension
\* being inname's when ext is left at its default False (or blank) and the one
\* given, without a leading dot, otherwise.
C16_NameWithInheritedOrGivenExt ==
    (co_pc = "done" /\ co_outdir.given /\ ExtensionOf(co_inname.path) # <<>>) =>
        /\ co_result.err = ""
        /\ co_result.name =
              co_outdir.value \o <<"/">> \o BaseName(co_inname.path)
                \o <<"_", co_suffix, ".">>
                \o (IF co_ext.given /\ co_ext.value # <<>>
                    THEN WithoutLeadingDot(co_ext.value)
                    ELSE ExtensionOf(co_inname.path))

(***************************************************************************)
(* Further properties of many_stats.                                       *)
(***************************************************************************)
\* The value v of a raster is below a given low_thresh or above a given high_thresh.
OutsideThresholds(v) ==
    \/ low_thresh.given /\ v < low_thresh.value
    \/ high_thresh.given /\ v > high_thresh.value

RECURSIVE SumSqOver(_, _)
SumSqOver(S, p) ==
    IF S = {} THEN 0
    ELSE LET i == CHOOSE j \in S : TRUE
         IN  rasterlist[i].data[p] * rasterlist[i].data[p] + SumSqOver(S \ {i}, p)

\* The rasters whose value at p is inside the thresholds and is not NoData.
Kept(p) ==
    {i \in 1 .. Len(rasterlist) :
        /\ ~OutsideThresholds(rasterlist[i].data[p])
        /\ rasterlist[i].data[p] # rasterlist[i].NoData_Value}

\* C17: in the finished stack a value is missing if it is below low_thresh or
\* above high_thresh (a threshold of 0 included), a value inside the thresholds
\* that is not NoData is present, and AVG, STD and NUM are those of the values
\* present.
C17_ThresholdsExclude ==
    ms_pc \in {"avg", "std", "num", "close", "done", "failed"} /\ ms_i = Len(rasterlist) =>
        \A p \in StatCells :
            /\ \A i \in 1 .. Len(rasterlist) :
                  LET v == rasterlist[i].data[p]
                  IN  /\ OutsideThresholds(v) => rast_3d[i][p] = <<>>
                      /\ (~OutsideThresholds(v) /\ v # rasterlist[i].NoData_Value)
                            => rast_3d[i][p] = <<v>>
            /\ (avg_rast # <<>> /\ Kept(p) # {}) =>
                  avg_rast[1][p] = <<SumOver(Kept(p), p), Cardinality(Kept(p))>>
            /\ (std_rast # <<>> /\ Kept(p) # {}) =>
                  std_rast[1][p] =
                      <<Cardinality(Kept(p)) * SumSqOver(Kept(p), p)
                            - SumOver(Kept(p), p) * SumOver(Kept(p), p),
                        Cardinality(Kept(p)) * Cardinality(Kept(p))>>
            /\ num_rast # <<>> => num_rast[1][p] = Cardinality(Kept(p))

\* C17: values -9999, 1 and 3 (none of them NoData) with low_thresh = 0 and
\* high_thresh = 1: only the 1 is left, so AVG is 1/1, STD is 0 and NUM is 1.
C17_Witness ==
    /\ Len(rasterlist) = 3
    /\ \A i \in 1 .. 3 : rasterlist[i].NoData_Value = 0
    /\ rasterlist[1].data[<<0, 0>>] = -9999
    /\ rasterlist[2].data[<<0, 0>>] = 1
    /\ rasterlist[3].data[<<0, 0>>] = 3
    /\ low_thresh = [given |-> TRUE, value |-> 0]
    /\ high_thresh = [given |-> TRUE, value |-> 1]
    /\ avg_rast # <<>> /\ avg_rast[1][<<0, 0>>] = <<1, 1>>
    /\ std_rast # <<>> /\ std_rast[1][<<0, 0>>] = <<0, 1>>
    /\ num_rast # <<>> /\ num_rast[1][<<0, 0>>] = 1

(***************************************************************************)
(* grab_info(filepath, data_type, CustGroupings)                           *)
(*                                                                         *)
(* The file name is given by its data type and the julian day written in   *)
(* it.  The info object is a record: j_day is <<day>> or <<>> when the     *)
(* attribute is not set, period tells whether the period attribute is set, *)
(* custom is <<bin>> once the custom<g> attribute is set.  The module      *)
(* never imports datetime and grab_info has no name Quiet.                 *)
(***************************************************************************)
\* lines 737-767: the data types whose names carry year and julian day
DayTypes == {"MODIS", "Landsat"}
\* lines 769-782: the data types that get a period attribute and no j_day
PeriodTypes == {"WELD_CONUS", "WELD_AK", "ASTER"}
\* lines 784-800: recognised but not supported, and everything else
OtherTypes == {"TRMM", "AMSR_E", "AIRS", "unknown"}

\* line 834: 1 + (int(info.j_day) - 1) / (grouping), "/" on two ints
CustomBin(j_day, grouping) == 1 + (j_day - 1) \div grouping

\* lines 726-803: take the name apart and set the attributes
GI_Parse ==
    /\ gi_pc = "parse"
    /\ GrabOnly
    /\ IF gi_type \in OtherTypes
       THEN /\ gi_pc' = "done"
            /\ UNCHANGED gi_info
       ELSE /\ gi_info' = [j_day  |-> IF gi_type \in DayTypes THEN <<gi_jday>> ELSE <<>>,
                            period |-> gi_type \in PeriodTypes,
                            custom |-> <<>>]
            /\ gi_pc' = "date"
    /\ UNCHANGED <<gi_type, gi_jday, gi_grouping, gi_exists, gi_err>>

\* lines 805-827: month, day and season for data without a period attribute.  Line
\* 809 reads the name datetime, a NameError the bare except catches; line 816 in
\* the handler reads it again.
GI_Date ==
    /\ gi_pc = "date"
    /\ GrabOnly
    /\ IF ~gi_info.period
       THEN /\ gi_err' = "NameError"
            /\ gi_pc' = "failed"
       ELSE /\ gi_pc' = "group"
            /\ UNCHANGED gi_err
    /\ UNCHANGED <<gi_type, gi_jday, gi_grouping, gi_exists, gi_info>>

\* lines 829-838: the custom grouping; line 834 reads info.j_day
GI_Group ==
    /\ gi_pc = "group"
    /\ GrabOnly
    /\ IF PyFalsy(gi_grouping)
       THEN /\ gi_pc' = "return"
            /\ UNCHANGED <<gi_info, gi_err>>
       ELSE IF gi_info.j_day = <<>>
            THEN /\ gi_err' = "AttributeError"
                 /\ gi_pc' = "failed"
                 /\ UNCHANGED gi_info
            ELSE /\ gi_info' = [gi_info EXCEPT
                                    !.custom = <<CustomBin(gi_info.j_day[1], gi_grouping.value)>>]
                 /\ gi_pc' = "return"
                 /\ UNCHANGED gi_err
    /\ UNCHANGED <<gi_type, gi_jday, gi_grouping, gi_exists>>

\* lines 840-847: return the info if the file exists; line 842 reads Quiet
GI_Return ==
    /\ gi_pc = "return"
    /\ GrabOnly
    /\ IF gi_exists
       THEN /\ gi_err' = "NameError"
            /\ gi_pc' = "failed"
       ELSE /\ gi_pc' = "done"
            /\ UNCHANGED gi_err
    /\ UNCHANGED <<gi_type, gi_jday, gi_grouping, gi_exists, gi_info>>

grab_info ==
    \/ GI_Parse
    \/ GI_Date
    \/ GI_Group
    \/ GI_Return

JulianDays == 1 .. 366
Groupings == {[given |-> FALSE, value |-> 0]} \cup
             {[given |-> TRUE, value |-> g] : g \in {1, 5, 7}}

InitGrab ==
    /\ IdleAlign
    /\ IdleOverlap
    /\ IdleStats
    /\ IdleMatch
    /\ IdleIsRast
    /\ IdleOutname
    /\ tempdir = FALSE
    /\ gi_type \in DayTypes \cup PeriodTypes \cup OtherTypes
    /\ gi_jday \in JulianDays
    /\ gi_grouping \in Groupings
    /\ gi_exists \in BOOLEAN
    /\ gi_pc = "parse"
    /\ gi_info = [j_day |-> <<>>, period |-> FALSE, custom |-> <<>>]
    /\ gi_err = ""

NextGrab == grab_info

SpecGrab == InitGrab /\ [][NextGrab]_vars

\* C18: for a file name with julian day j and an integer grouping of width g,
\* grab_info ends with the bin 1 + floor((j - 1) / g) in the custom attribute.
C18_BinOfJulianDay ==
    (/\ gi_pc \in {"done", "failed"}
     /\ gi_type \in DayTypes
     /\ gi_grouping.given /\ gi_grouping.value >= 1)
        => gi_info.custom = <<1 + (gi_jday - 1) \div gi_grouping.value>>

(***************************************************************************)
(* spatially_match: the file handed to clip_and_snap.                      *)
(***************************************************************************)
\* lines 452-455: the file the call of clip_and_snap is given for the candidate
\* in hand
SelectedInput == IF usetemp THEN tempfiles[sm_i] ELSE <<sm_rasterlist[sm_i]>>

\* The candidate's projection differs from the snap raster's, or its cell height
\* or cell width is out of tolerance.
NeededTemp(m) == ProjectionDiffers(m) \/ CellSizeMismatch(m)

\* C19: at every position of the list, the file handed to clip_and_snap is the
\* temporary reprojected or resampled file if and only if that candidate needed
\* reprojection or resampling, and the candidate's own file otherwise.
C19_TempIffCandidateNeededIt ==
    sm_pc = "snap" =>
        IF NeededTemp(sm_rasterlist[sm_i])
        THEN tempfiles[sm_i] # <<>> /\ SelectedInput = tempfiles[sm_i]
        ELSE SelectedInput = <<sm_rasterlist[sm_i]>>

(***************************************************************************)
(* spatially_match: the temp directory it shares with clip_and_snap.       *)
(***************************************************************************)
\* lines 430-441 for a candidate after the first: a reprojection or resampling
\* into the temp directory is about to be tried
LaterCandidateStep == sm_i >= 2 /\ sm_pc \in {"project", "resolution"}

SliceInside(s, n) == 0 <= s[1] /\ s[1] <= s[2] /\ s[2] <= n

\* The number of cells the slice <<start, stop>> selects on an axis of n cells.
SliceLength(s, n) == Cardinality(PySlice(s[1], s[2], n))

\* C22: whenever the clipped candidate is no wider and no taller than the snap
\* raster, the destination slice computed from the rounded offsets lies inside the
\* output grid on both axes and selects exactly the candidate's shape, whatever
\* the offsets.
C22_DestinationSliceInsideGrid ==
    (cs_pc = "place" /\ ~Oversized) =>
        LET rs == RowSlice(snap_meta, meta, yoffset)
            cs == ColSlice(snap_meta, meta, xoffset)
        IN  /\ SliceInside(rs, snap_meta.Ysize)
            /\ SliceInside(cs, snap_meta.Xsize)
            /\ SliceLength(rs, snap_meta.Ysize) = meta.Ysize
            /\ SliceLength(cs, snap_meta.Xsize) = meta.Xsize

====
